---- MODULE Spec2Model ----
(***************************************************************************)
(* Model of src/EDA.py: EDAAnalyzer.perform_analysis (the analysis engine) *)
(* followed by QuickEDAApp.generate_pdf_report (the report renderer): Spec;*)
(* and QuickEDAApp's handlers with its background threads: SpecApp.        *)
(*                                                                         *)
(* A DataFrame is a record                                                 *)
(*   [columns : Seq(name), dtypes : Seq(dtype), data : Seq(Seq(cell)),     *)
(*    nrows : Nat]                                                         *)
(* stored column by column, as pandas stores it: data[c][r] is the cell of *)
(* column c in row r.  A cell is a record [k, n, s]: k = "null" (NaN /     *)
(* None), "num" (a number n) or "str" (a text, the character sequence s).  *)
(* A float is a record [kind, num, den]: kind = "nan", or "num" for the    *)
(* rational num / den.                                                     *)
(***************************************************************************)
EXTENDS Integers, Sequences, FiniteSets, TLC

VARIABLES
    df,                 \* EDAAnalyzer.df / QuickEDAApp.df: the loaded dataset
    uploaded_file_path, \* QuickEDAApp.uploaded_file_path, a sequence of path components
    progress_callback,  \* "none" (progress_callback=None) or "given"
    pc,                 \* position inside perform_analysis / generate_pdf_report
    results,            \* the local dict `results` of perform_analysis
    analysis_results,   \* self.analysis_results ({} until perform_analysis returns)
    log,                \* observation: callback calls and finished stages, in order
    story,              \* the list `story` of generate_pdf_report
    disk,               \* the file system around save_path: [dir, file]
    disk_before,        \* disk as it was when generate_pdf_report was called
    report_error,       \* "none", or the exception that left generate_pdf_report
    app,                \* QuickEDAApp: analysis_in_progress, report_generated, the buttons
    uploads,            \* the threads running process_upload, by slot
    analyses,           \* the threads running process_analysis, by slot
    events,             \* the callbacks posted with root.after(0, ...), oldest first
    removed             \* observation: remove_file has run and no analysis was started since

appvars == <<app, uploads, analyses, events, removed>>

vars == <<df, uploaded_file_path, progress_callback, pc, results,
          analysis_results, log, story, disk, disk_before, report_error,
          app, uploads, analyses, events, removed>>

----------------------------------------------------------------------------
(* Bounds of the model *)

\* largest number of columns of a small dataset
MaxCols == 2
\* largest number of rows of a small dataset
MaxRows == 2
\* largest number of distinct texts in the one column of a long dataset
MaxDistinct == 12
\* the i-th text of a long dataset is i * WordStep characters long
WordStep == 3
\* largest number of process_upload threads alive or unreported at a time
MaxUploads == 1
\* number of slots for process_analysis threads
MaxAnalyses == 2

----------------------------------------------------------------------------
(* Generic helpers *)

Min(a, b) == IF a <= b THEN a ELSE b

Range(f) == {f[i] : i \in DOMAIN f}

EmptyDict == [x \in {} |-> 0]

\* d[key] = val, as a Python dict assignment
DictSet(d, key, val) == [x \in (DOMAIN d) \cup {key} |-> IF x = key THEN val ELSE d[x]]

RECURSIVE SumSeq(_)
SumSeq(s) == IF s = <<>> THEN 0 ELSE s[1] + SumSeq(Tail(s))

\* all orderings of 1..n
Perms(n) == {p \in [1..n -> 1..n] : \A i, j \in 1..n : p[i] = p[j] => i = j}

----------------------------------------------------------------------------
(* Cells and floats *)

Null == [k |-> "null", n |-> 0, s |-> <<>>]
Num(i) == [k |-> "num", n |-> i, s |-> <<>>]
Txt(t) == [k |-> "str", n |-> 0, s |-> t]

NaN == [kind |-> "nan", num |-> 0, den |-> 1]
Frac(a, b) == [kind |-> "num", num |-> a, den |-> b]

Inf == [kind |-> "inf", num |-> 1, den |-> 0]

\* float division a / b of a pandas Series by a scalar, a >= 0: nothing is
\* raised when b = 0; 0 / 0 is NaN and a / 0 is inf
FDiv(a, b) == IF b # 0 THEN Frac(a, b) ELSE IF a = 0 THEN NaN ELSE Inf

FMul(f, c) == IF f.kind = "num" THEN Frac(f.num * c, f.den) ELSE f

FIsZero(f) == f.kind = "num" /\ f.num = 0

----------------------------------------------------------------------------
(* DataFrames *)

NCols(d) == Len(d.columns)

\* df.shape
Shape(d) == <<d.nrows, NCols(d)>>

\* the position of the column called name
ColIndex(d, name) == CHOOSE i \in 1..NCols(d) : d.columns[i] = name

\* df[col]: the cells of one column, top to bottom
Column(d, name) == d.data[ColIndex(d, name)]

\* the tuple of values of row r
Row(d, r) == [c \in 1..NCols(d) |-> d.data[c][r]]

IsNull(cell) == cell.k = "null"

NonNull(col) == SelectSeq(col, LAMBDA cell : ~IsNull(cell))

\* counts, per column, the cells that are not null (notnull for isnull)
IsNullSumNotNull(d) ==
    [name \in Range(d.columns) |->
        Cardinality({r \in 1..d.nrows : ~IsNull(Column(d, name)[r])})]

\* df.isnull().sum(): per column, the number of null cells
IsNullSum(d) ==
    [name \in Range(d.columns) |->
        Cardinality({r \in 1..d.nrows : IsNull(Column(d, name)[r])})]

\* df.isnull().sum() / len(df) * 100
MissingPercentage(d) ==
    [name \in Range(d.columns) |-> FMul(FDiv(IsNullSum(d)[name], d.nrows), 100)]

\* df.memory_usage(deep=True).sum(): the index plus every column's buffer;
\* 8 bytes a cell, a text cell also its characters
CellBytes(cell) == 8 + Len(cell.s)

MemoryUsage(d) ==
    8 * d.nrows
    + SumSeq([c \in 1..NCols(d) |-> SumSeq([r \in 1..d.nrows |-> CellBytes(d.data[c][r])])])

\* np.number covers the integer and float dtypes, not bool, object or datetime
NumberDtypes == {"int64", "float64"}

\* include=['object', 'category']
ObjectOrCategoryDtypes == {"object", "category"}

\* df.select_dtypes(include=...).columns.tolist(): the names, in column order,
\* of the columns whose dtype is included
SelectDtypes(d, include) ==
    LET idx == SelectSeq([i \in 1..NCols(d) |-> i], LAMBDA i : d.dtypes[i] \in include)
    IN  [j \in 1..Len(idx) |-> d.columns[idx[j]]]

NumericCols(d) == SelectDtypes(d, NumberDtypes)

CatCols(d) == SelectDtypes(d, ObjectOrCategoryDtypes)

----------------------------------------------------------------------------
(* df[numeric_cols].describe() and .corr() *)

\* the numbers of the non-null cells of a column
Numbers(col) == LET nn == NonNull(col) IN [i \in 1..Len(nn) |-> nn[i].n]

RECURSIVE SortAsc(_)
SortAsc(xs) ==
    IF xs = <<>> THEN <<>>
    ELSE LET i == CHOOSE i \in 1..Len(xs) : \A j \in 1..Len(xs) : xs[i] <= xs[j]
             rest == [j \in 1..(Len(xs) - 1) |-> IF j < i THEN xs[j] ELSE xs[j + 1]]
         IN  <<xs[i]>> \o SortAsc(rest)

\* the k-th quartile, by linear interpolation between the two nearest ranks
Quartile(xs, k) ==
    IF xs = <<>> THEN NaN
    ELSE LET srt == SortAsc(xs)
             pos == (Len(xs) - 1) * k
             lo  == pos \div 4
             r   == pos % 4
             hi  == IF r = 0 THEN lo ELSE lo + 1
         IN  Frac(srt[lo + 1] * (4 - r) + srt[hi + 1] * r, 4)

\* the sample variance (ddof = 1); std is its square root
Variance(xs) ==
    LET n  == Len(xs)
        s1 == SumSeq(xs)
        s2 == SumSeq([i \in 1..n |-> xs[i] * xs[i]])
    IN  IF n <= 1 THEN NaN
        ELSE [kind |-> "sqrt", num |-> n * s2 - s1 * s1, den |-> n * (n - 1)]

\* Series.describe() of one numeric column
Describe(col) ==
    LET xs == Numbers(col)
        n  == Len(xs)
        srt == SortAsc(xs)
    IN  [count |-> Frac(n, 1),
         mean  |-> FDiv(SumSeq(xs), n),
         std   |-> Variance(xs),
         min   |-> IF n = 0 THEN NaN ELSE Frac(srt[1], 1),
         q25   |-> Quartile(xs, 1),
         q50   |-> Quartile(xs, 2),
         q75   |-> Quartile(xs, 3),
         max   |-> IF n = 0 THEN NaN ELSE Frac(srt[n], 1)]

\* df[numeric_cols].describe().to_dict(): one entry per numeric column
NumericSummary(d) ==
    [name \in Range(NumericCols(d)) |-> Describe(Column(d, name))]

\* Pearson correlation of two columns over the rows where both are non-null:
\* the value is num / sqrt(den); NaN when a variance is 0 or no row is left
Pearson(cx, cy) ==
    LET rows == {r \in DOMAIN cx : ~IsNull(cx[r]) /\ ~IsNull(cy[r])}
        n    == Cardinality(rows)
        idx  == SelectSeq([r \in DOMAIN cx |-> r], LAMBDA r : r \in rows)
        sx   == SumSeq([i \in 1..n |-> cx[idx[i]].n])
        sy   == SumSeq([i \in 1..n |-> cy[idx[i]].n])
        sxy  == SumSeq([i \in 1..n |-> cx[idx[i]].n * cy[idx[i]].n])
        sxx  == SumSeq([i \in 1..n |-> cx[idx[i]].n * cx[idx[i]].n])
        syy  == SumSeq([i \in 1..n |-> cy[idx[i]].n * cy[idx[i]].n])
        vx   == n * sxx - sx * sx
        vy   == n * syy - sy * sy
    IN  IF n = 0 \/ vx * vy = 0 THEN NaN
        ELSE [kind |-> "corr", num |-> n * sxy - sx * sy, den |-> vx * vy]

\* df[numeric_cols].corr().to_dict()
CorrelationMatrix(d) ==
    [x \in Range(NumericCols(d)) |->
        [y \in Range(NumericCols(d)) |-> Pearson(Column(d, x), Column(d, y))]]

----------------------------------------------------------------------------
(* df[col].nunique(), df[col].value_counts().head(10).to_dict() *)

\* the distinct values of a sequence, in the order of their first occurrence
RECURSIVE Uniques(_)
Uniques(s) ==
    IF s = <<>> THEN <<>>
    ELSE LET front == Uniques(SubSeq(s, 1, Len(s) - 1))
             last  == s[Len(s)]
         IN  IF last \in Range(front) THEN front ELSE Append(front, last)

\* Series.nunique(): the number of distinct non-null values
NUnique(col) == Len(Uniques(NonNull(col)))

CountOf(s, v) == Cardinality({i \in DOMAIN s : s[i] = v})

\* the entry e placed in the list srt, sorted by falling count, behind every
\* entry that counts at least as much
InsertByCount(srt, e) ==
    LET k == Cardinality({i \in DOMAIN srt : srt[i].count >= e.count})
    IN  SubSeq(srt, 1, k) \o <<e>> \o SubSeq(srt, k + 1, Len(srt))

RECURSIVE SortByCount(_)
SortByCount(es) ==
    IF es = <<>> THEN <<>>
    ELSE InsertByCount(SortByCount(SubSeq(es, 1, Len(es) - 1)), es[Len(es)])

\* the counts left in the order of first occurrence (sort=False)
ValueCountsUnsorted(col) ==
    LET nn == NonNull(col)
        u  == Uniques(nn)
    IN  [i \in 1..Len(u) |-> [value |-> u[i], count |-> CountOf(nn, u[i])]]

\* Series.value_counts(): the non-null values with their counts, the most
\* frequent first, equal counts in the order of first occurrence
ValueCounts(col) ==
    LET nn == NonNull(col)
        u  == Uniques(nn)
    IN  SortByCount([i \in 1..Len(u) |-> [value |-> u[i], count |-> CountOf(nn, u[i])]])

\* .head(n)
HeadN(s, n) == SubSeq(s, 1, Min(n, Len(s)))

\* the n of .head(10)
TopN == 10

\* the entry of categorical_summary for one column; top_values is an ordered
\* dict, kept as the list of its items
CategoricalEntry(col) ==
    [unique_count |-> NUnique(col),
     top_values   |-> HeadN(ValueCounts(col), TopN)]

CategoricalSummary(d) ==
    [name \in Range(CatCols(d)) |-> CategoricalEntry(Column(d, name))]

----------------------------------------------------------------------------
(* df.duplicated().sum() *)

\* DataFrame.empty: no rows or no columns
Empty(d) == d.nrows = 0 \/ NCols(d) = 0

\* df.duplicated(keep='first'): rows are visited top to bottom, a row is
\* flagged when its tuple has been seen, and is remembered otherwise
RECURSIVE DuplicatedFrom(_, _, _)
DuplicatedFrom(d, r, seen) ==
    IF r > d.nrows THEN <<>>
    ELSE <<Row(d, r) \in seen>> \o DuplicatedFrom(d, r + 1, seen \cup {Row(d, r)})

\* an empty frame has an empty mask
Duplicated(d) == IF Empty(d) THEN <<>> ELSE DuplicatedFrom(d, 1, {})

\* flags a row only when it repeats the row right above it
DuplicateRowsConsecutive(d) ==
    Cardinality({r \in 2..d.nrows : ~Empty(d) /\ Row(d, r) = Row(d, r - 1)})

\* .sum(): the number of flagged rows
DuplicateRows(d) ==
    LET mask == Duplicated(d)
    IN  Cardinality({r \in DOMAIN mask : mask[r]})

----------------------------------------------------------------------------
(* The datasets the model is run on *)

ColNames == <<"name", "age", "city", "id">>

\* The dtypes a loaded frame has.  An int64 or bool column cannot hold a null:
\* pandas stores a numeric column with a missing value as float64.
DTypes == {"int64", "float64", "object", "bool"}

True == [k |-> "bool", n |-> 1, s |-> <<>>]

CellValues(t) ==
    CASE t = "int64"   -> {Num(1)}
      [] t = "float64" -> {Null, Num(1)}
      [] t = "object"  -> {Null, Txt(<<"a">>)}
      [] t = "bool"    -> {True}

ColumnsOf(nr) ==
    UNION {{[dtype |-> t, cells |-> c] : c \in [1..nr -> CellValues(t)]} : t \in DTypes}

MakeFrame(cs, nr) ==
    [columns |-> [i \in 1..Len(cs) |-> ColNames[i]],
     dtypes  |-> [i \in 1..Len(cs) |-> cs[i].dtype],
     data    |-> [i \in 1..Len(cs) |-> cs[i].cells],
     nrows   |-> nr]

\* A frame without columns has no rows: read_csv refuses a file without
\* columns and read_excel turns an empty sheet into a 0 x 0 frame.
SmallShapes == {sh \in (0..MaxCols) \X (0..MaxRows) : sh[1] = 0 => sh[2] = 0}

SmallDatasets ==
    UNION {{MakeFrame(cs, sh[2]) : cs \in [1..sh[1] -> ColumnsOf(sh[2])]} : sh \in SmallShapes}

\* the i-th text: i * WordStep characters, the last one a "z"
Word(i) == [j \in 1..(i * WordStep) |-> IF j = i * WordStep THEN "z" ELSE "a"]

\* One object column holding the texts 1..k once each, then text h twice
\* more (h = 0: no text is repeated), then z nulls.
LongColumn(k, h, z) ==
    [i \in 1..k |-> Txt(Word(i))]
    \o (IF h = 0 THEN <<>> ELSE <<Txt(Word(h)), Txt(Word(h))>>)
    \o [i \in 1..z |-> Null]

LongDatasets ==
    {MakeFrame(<<[dtype |-> "object", cells |-> LongColumn(k, h, z)]>>,
               Len(LongColumn(k, h, z))) :
        <<k, h, z>> \in {t \in (1..MaxDistinct) \X (0..MaxDistinct) \X (0..1) : t[2] <= t[1]}}

Datasets == SmallDatasets \cup LongDatasets

----------------------------------------------------------------------------
(* Formatting.  A text is a sequence of strings read one after the other;   *)
(* a formatted number is the sequence of its characters.                    *)

DigitChars == <<"0", "1", "2", "3", "4", "5", "6", "7", "8", "9">>

\* str(n), n >= 0
RECURSIVE Digits(_)
Digits(n) == IF n < 10 THEN <<DigitChars[n + 1]>>
             ELSE Append(Digits(n \div 10), DigitChars[(n % 10) + 1])

\* f"{n:,}": a comma before every group of three digits
RECURSIVE GroupThousands(_)
GroupThousands(ds) ==
    IF Len(ds) <= 3 THEN ds
    ELSE GroupThousands(SubSeq(ds, 1, Len(ds) - 3)) \o <<",">> \o SubSeq(ds, Len(ds) - 2, Len(ds))

Thousands(n) == GroupThousands(Digits(n))

RECURSIVE Pow10(_)
Pow10(k) == IF k = 0 THEN 1 ELSE 10 * Pow10(k - 1)

\* a / b rounded to the nearest integer, a tie to the even one (a >= 0, b > 0)
RoundDiv(a, b) ==
    LET q == a \div b
        r == a % b
    IN  IF 2 * r < b THEN q
        ELSE IF 2 * r > b THEN q + 1
        ELSE IF q % 2 = 0 THEN q ELSE q + 1

\* the largest s with s * s <= x
ISqrt(x) == CHOOSE s \in 0..x : s * s <= x /\ (s + 1) * (s + 1) > x

\* sqrt(a / b) * scale rounded to the nearest integer (a >= 0, b > 0)
RoundSqrt(a, b, scale) ==
    LET x == (4 * a * scale * scale) \div b      \* floor of (2 * value)^2
        t == ISqrt(x)                            \* floor of 2 * value
    IN  (t + 1) \div 2

\* the digits ds padded with zeros on the left to at least n characters
RECURSIVE ZeroPad(_, _)
ZeroPad(ds, n) == IF Len(ds) >= n THEN ds ELSE ZeroPad(<<"0">> \o ds, n)

\* the scaled integer v printed with `places` decimals
Fixed(v, places) ==
    IF places = 0 THEN Digits(v)
    ELSE Digits(v \div Pow10(places)) \o <<".">> \o ZeroPad(Digits(v % Pow10(places)), places)

\* f"{x:.<places>f}" of a float that is not negative
FormatFloat(f, places) ==
    CASE f.kind = "nan"  -> <<"n", "a", "n">>
      [] f.kind = "inf"  -> <<"i", "n", "f">>
      [] f.kind = "num"  -> Fixed(RoundDiv(f.num * Pow10(places), f.den), places)
      [] f.kind = "sqrt" -> Fixed(RoundSqrt(f.num, f.den, Pow10(places)), places)

\* str(value) of a cell
Str(cell) ==
    CASE cell.k = "str"  -> cell.s
      [] cell.k = "num"  -> Digits(cell.n)
      [] cell.k = "bool" -> IF cell.n = 1 THEN <<"True">> ELSE <<"False">>
      [] cell.k = "null" -> <<"nan">>

\* os.path.basename(path): the last component
Basename(path) == path[Len(path)]

----------------------------------------------------------------------------
(* EDAAnalyzer.perform_analysis *)

\* the checkpoints with 50 and 75 exchanged
PercentsSwapped == <<10, 25, 75, 50, 90, 100>>

Percents == <<10, 25, 50, 75, 90, 100>>

Messages == <<"Analyzing basic dataset information...",
              "Checking for missing values...",
              "Analyzing numerical columns...",
              "Analyzing categorical columns...",
              "Checking for duplicate rows...",
              "Analysis complete!">>

StageNames == <<"basic_info", "missing_values", "numeric", "categorical", "duplicates">>

CallEvent(i) == [kind |-> "callback", percent |-> Percents[i], text |-> Messages[i]]

StageEvent(i) == [kind |-> "stage", percent |-> 0, text |-> StageNames[i]]

At(where, i) == [at |-> where, i |-> i]

\* Step 1: Basic info
BasicInfo(d, res) ==
    DictSet(DictSet(DictSet(DictSet(res,
        "shape", Shape(d)),
        "columns", d.columns),
        "dtypes", [name \in Range(d.columns) |-> d.dtypes[ColIndex(d, name)]]),
        "memory_usage", MemoryUsage(d))

\* Step 2: Missing values
MissingValues(d, res) ==
    DictSet(DictSet(res,
        "missing_values", IsNullSum(d)),
        "missing_percentage", MissingPercentage(d))

\* sets both keys whether or not a numeric column exists
NumericalColumnsAlways(d, res) ==
    DictSet(DictSet(res,
        "numeric_summary", NumericSummary(d)),
        "correlation_matrix", CorrelationMatrix(d))

\* Step 3: Numerical columns analysis
NumericalColumns(d, res) ==
    IF NumericCols(d) # <<>>
    THEN DictSet(DictSet(res,
            "numeric_summary", NumericSummary(d)),
            "correlation_matrix", CorrelationMatrix(d))
    ELSE res

\* Step 4: Categorical columns analysis
CategoricalColumns(d, res) ==
    IF CatCols(d) # <<>>
    THEN DictSet(res, "categorical_summary", CategoricalSummary(d))
    ELSE res

\* Step 5: Duplicate rows
DuplicateRowsStep(d, res) == DictSet(res, "duplicate_rows", DuplicateRows(d))

StageResult(i, d, res) ==
    CASE i = 1 -> BasicInfo(d, res)
      [] i = 2 -> MissingValues(d, res)
      [] i = 3 -> NumericalColumns(d, res)
      [] i = 4 -> CategoricalColumns(d, res)
      [] i = 5 -> DuplicateRowsStep(d, res)

\* what a run that is never interrupted returns
PerformAnalysis(d) ==
    DuplicateRowsStep(d, CategoricalColumns(d, NumericalColumns(d,
        MissingValues(d, BasicInfo(d, EmptyDict)))))

ReportIdle == /\ story = <<>>
              /\ report_error = "none"

\* self.df = None
NoFrame == [columns |-> <<>>, dtypes |-> <<>>, data |-> <<>>, nrows |-> 0 - 1]

\* a free thread slot
NoThread == [pc |-> "idle", file |-> "", frame |-> NoFrame]

\* QuickEDAApp.__init__: nothing loaded, both buttons disabled, no thread

InitialApp ==
    [analysis_in_progress |-> FALSE,
     report_generated     |-> FALSE,
     analyze_btn          |-> "disabled",
     download_btn         |-> "disabled",
     remove_file_btn      |-> FALSE]

AppIdle == /\ app = InitialApp
           /\ uploads = [s \in 1..MaxUploads |-> NoThread]
           /\ analyses = [s \in 1..MaxAnalyses |-> NoThread]
           /\ events = <<>>
           /\ removed = FALSE

Init ==
    /\ df \in Datasets
    /\ uploaded_file_path = <<"home", "user", "data.csv">>
    /\ progress_callback \in {"none", "given"}
    /\ pc = At("callback", 1)
    /\ results = EmptyDict
    /\ analysis_results = EmptyDict
    /\ log = <<>>
    /\ ReportIdle
    /\ disk = [dir |-> TRUE, file |-> "absent"]
    /\ disk_before = disk
    /\ AppIdle

AnalysisUnchanged == UNCHANGED <<df, uploaded_file_path, progress_callback,
                                 story, disk, disk_before, report_error, appvars>>

NextAfterCallback(i) == IF i = 6 THEN At("return", 0) ELSE At("stage", i)

\* `if progress_callback:` with no callback given: nothing is called
CallbackAbsent(i) ==
    /\ pc = At("callback", i)
    /\ progress_callback = "none"
    /\ pc' = NextAfterCallback(i)
    /\ UNCHANGED <<results, analysis_results, log>>
    /\ AnalysisUnchanged

\* progress_callback(percent, message) is called and returns
CallbackReturns(i) ==
    /\ pc = At("callback", i)
    /\ progress_callback = "given"
    /\ log' = Append(log, CallEvent(i))
    /\ pc' = NextAfterCallback(i)
    /\ UNCHANGED <<results, analysis_results>>
    /\ AnalysisUnchanged

\* progress_callback(percent, message) is called and raises: no try/except
\* surrounds the call, the exception leaves perform_analysis
CallbackRaises(i) ==
    /\ pc = At("callback", i)
    /\ progress_callback = "given"
    /\ log' = Append(log, CallEvent(i))
    /\ pc' = At("raised", i)
    /\ UNCHANGED <<results, analysis_results>>
    /\ AnalysisUnchanged

\* the statements of Step i
Stage(i) ==
    /\ pc = At("stage", i)
    /\ results' = StageResult(i, df, results)
    /\ log' = Append(log, StageEvent(i))
    /\ pc' = At("callback", i + 1)
    /\ UNCHANGED analysis_results
    /\ AnalysisUnchanged

\* self.analysis_results = results; return results
Return ==
    /\ pc = At("return", 0)
    /\ analysis_results' = results
    /\ pc' = At("done", 0)
    /\ UNCHANGED <<results, log>>
    /\ AnalysisUnchanged

----------------------------------------------------------------------------
(* QuickEDAApp.generate_pdf_report *)

Paragraph(text, style) ==
    [kind |-> "Paragraph", style |-> style, text |-> text, data |-> <<>>, height |-> 0]

Spacer(h) ==
    [kind |-> "Spacer", style |-> "", text |-> <<>>, data |-> <<>>, height |-> h]

Table(data) ==
    [kind |-> "Table", style |-> "", text |-> <<>>, data |-> data, height |-> 0]

PageBreak ==
    [kind |-> "PageBreak", style |-> "", text |-> <<>>, data |-> <<>>, height |-> 0]

\* datetime.now().strftime('%Y-%m-%d %H:%M:%S')
Now == "YYYY-mm-dd HH:MM:SS"

\* the keys of an ordered dict keyed by column names, in insertion order:
\* the summaries are filled in the order of the frame's columns
Keys(res, key) == SelectSeq(res["columns"], LAMBDA name : name \in DOMAIN res[key])

\* the largest number of top values printed per column
ReportTopN == 5
\* the largest number of characters printed of a value
ReportValueLen == 30

\* Title and generated info
TitleBlocks(path) ==
    <<Paragraph(<<"Exploratory Data Analysis Report">>, "CustomTitle"),
      Spacer(20),
      Paragraph(<<"Generated on: ", Now>>, "Normal")>>
    \o (IF path # <<>>
        THEN <<Paragraph(<<"Source file: ", Basename(path)>>, "Normal")>>
        ELSE <<>>)
    \o <<Spacer(20)>>

\* Dataset Overview
OverviewData(res) ==
    <<<< <<"Metric">>, <<"Value">> >>,
      << <<"Number of Rows">>, Thousands(res["shape"][1]) >>,
      << <<"Number of Columns">>, Digits(res["shape"][2]) >>,
      << <<"Memory Usage">>, FormatFloat(Frac(res["memory_usage"], 1024 * 1024), 2) \o <<" MB">> >>,
      << <<"Duplicate Rows">>, Thousands(res["duplicate_rows"]) >> >>

OverviewBlocks(res) ==
    <<Paragraph(<<"Dataset Overview">>, "CustomHeading"),
      Table(OverviewData(res)),
      Spacer(20)>>

\* Column Information: the header, then one row per entry of results['columns']
ColumnRow(res, col) ==
    << <<col>>,
       <<res["dtypes"][col]>>,
       Digits(res["missing_values"][col]),
       FormatFloat(res["missing_percentage"][col], 1) \o <<"%">> >>

ColumnData(res) ==
    << << <<"Column Name">>, <<"Data Type">>, <<"Missing Values">>, <<"Missing %">> >> >>
    \o [i \in 1..Len(res["columns"]) |-> ColumnRow(res, res["columns"][i])]

ColumnBlocks(res) ==
    <<Paragraph(<<"Column Information">>, "CustomHeading"),
      Table(ColumnData(res))>>

\* Numerical Summary
NumericRow(col, stats) ==
    << <<col>>,
       FormatFloat(stats.count, 0),
       FormatFloat(stats.mean, 2),
       FormatFloat(stats.std, 2),
       FormatFloat(stats.min, 2),
       FormatFloat(stats.q25, 2),
       FormatFloat(stats.q50, 2),
       FormatFloat(stats.q75, 2),
       FormatFloat(stats.max, 2) >>

NumericData(res) ==
    << << <<"Column">>, <<"Count">>, <<"Mean">>, <<"Std">>, <<"Min">>,
          <<"25%">>, <<"50%">>, <<"75%">>, <<"Max">> >> >>
    \o [i \in 1..Len(Keys(res, "numeric_summary")) |->
            NumericRow(Keys(res, "numeric_summary")[i],
                       res["numeric_summary"][Keys(res, "numeric_summary")[i]])]

NumericBlocks(res) ==
    IF "numeric_summary" \in DOMAIN res
    THEN <<PageBreak,
           Paragraph(<<"Numerical Columns Summary">>, "CustomHeading"),
           Table(NumericData(res))>>
    ELSE <<>>

\* every stored top value gets a row: the [:5] is missing
TopDataAll(top_values) ==
    << << <<"Value">>, <<"Count">> >> >>
    \o [i \in 1..Len(top_values) |->
            << HeadN(Str(top_values[i].value), ReportValueLen),
               Digits(top_values[i].count) >>]

\* list(info['top_values'].items())[:5], each value as str(value)[:30]
TopData(top_values) ==
    << << <<"Value">>, <<"Count">> >> >>
    \o [i \in 1..Len(HeadN(top_values, ReportTopN)) |->
            << HeadN(Str(top_values[i].value), ReportValueLen),
               Digits(top_values[i].count) >>]

\* the blocks of one categorical column
CategoricalColumnBlocks(col, info) ==
    <<Paragraph(<<"Column: ", col>>, "Heading2"),
      Paragraph(<<"Unique values: ">> \o Digits(info.unique_count), "Normal")>>
    \o (IF info.top_values # <<>>
        THEN <<Paragraph(<<"Top values:">>, "Normal"),
               Table(TopData(info.top_values)),
               Spacer(10)>>
        ELSE <<>>)

RECURSIVE CategoricalLoop(_, _)
CategoricalLoop(res, cols) ==
    IF cols = <<>> THEN <<>>
    ELSE CategoricalColumnBlocks(cols[1], res["categorical_summary"][cols[1]])
         \o CategoricalLoop(res, Tail(cols))

\* Categorical Summary
CategoricalBlocks(res) ==
    IF "categorical_summary" \in DOMAIN res
    THEN <<Spacer(20),
           Paragraph(<<"Categorical Columns Summary">>, "CustomHeading")>>
         \o CategoricalLoop(res, Keys(res, "categorical_summary"))
    ELSE <<>>

\* the categorical section placed before the numerical one
StoryCategoricalFirst(res, path) ==
    TitleBlocks(path) \o OverviewBlocks(res) \o ColumnBlocks(res)
    \o CategoricalBlocks(res) \o NumericBlocks(res)

\* the list `story` when doc.build is reached
Story(res, path) ==
    TitleBlocks(path) \o OverviewBlocks(res) \o ColumnBlocks(res)
    \o NumericBlocks(res) \o CategoricalBlocks(res)

\* The destination save_path: whether its directory exists, and the file
\* there: "absent", "old" (a file from before), "partial" (opened for
\* writing and not completed) or "new" (the complete report).
Destinations ==
    {[dir |-> FALSE, file |-> "absent"],
     [dir |-> TRUE, file |-> "absent"],
     [dir |-> TRUE, file |-> "old"]}

ReportUnchanged == UNCHANGED <<df, uploaded_file_path, progress_callback,
                               results, analysis_results, log, appvars>>

\* generate_pdf_report(save_path) up to doc.build: SimpleDocTemplate only
\* records the file name, the story is built from self.analysis_results
BuildStory ==
    /\ pc = At("done", 0)
    /\ \E dest \in Destinations :
          /\ disk' = dest
          /\ disk_before' = dest
    /\ story' = Story(analysis_results, uploaded_file_path)
    /\ pc' = At("build", 0)
    /\ UNCHANGED report_error
    /\ ReportUnchanged

\* doc.build(story) lays the story out in memory and then opens save_path for
\* writing and writes the document.  Nothing surrounds the call: no temporary
\* file, no try/except, no removal of what was written.

\* the document is laid out and written completely
DocBuildSaves ==
    /\ pc = At("build", 0)
    /\ disk.dir
    /\ disk' = [disk EXCEPT !.file = "new"]
    /\ pc' = At("saved", 0)
    /\ UNCHANGED <<story, disk_before, report_error>>
    /\ ReportUnchanged

\* laying out raises (LayoutError) before the file is opened
DocBuildLayoutError ==
    /\ pc = At("build", 0)
    /\ report_error' = "LayoutError"
    /\ pc' = At("failed", 0)
    /\ UNCHANGED <<story, disk, disk_before>>
    /\ ReportUnchanged

\* open(save_path, 'wb') raises: the directory does not exist
DocBuildOpenError ==
    /\ pc = At("build", 0)
    /\ ~disk.dir
    /\ report_error' = "FileNotFoundError"
    /\ pc' = At("failed", 0)
    /\ UNCHANGED <<story, disk, disk_before>>
    /\ ReportUnchanged

\* open(save_path, 'wb') has created or truncated the file and a write raises
\* (disk full, I/O error)
DocBuildWriteError ==
    /\ pc = At("build", 0)
    /\ disk.dir
    /\ disk' = [disk EXCEPT !.file = "partial"]
    /\ report_error' = "OSError"
    /\ pc' = At("failed", 0)
    /\ UNCHANGED <<story, disk_before>>
    /\ ReportUnchanged

Next ==
    \/ \E i \in 1..6 : CallbackAbsent(i)
    \/ \E i \in 1..6 : CallbackReturns(i)
    \/ \E i \in 1..6 : CallbackRaises(i)
    \/ \E i \in 1..5 : Stage(i)
    \/ Return
    \/ BuildStory
    \/ DocBuildSaves
    \/ DocBuildLayoutError
    \/ DocBuildOpenError
    \/ DocBuildWriteError

Spec == Init /\ [][Next]_vars

----------------------------------------------------------------------------
(* QuickEDAApp: the handlers run by the Tk main loop, one at a time, and the *)
(* daemon threads they start.  A thread step may fall between any two        *)
(* handlers.  The handlers' changes to the progress bars, labels and toasts  *)
(* are left out, and so are the callbacks that write to those widgets only:  *)
(* update_analysis_progress, posted by the progress callbacks of a           *)
(* process_analysis thread, and upload_error, posted by a process_upload     *)
(* thread whose file cannot be parsed, which has assigned nothing by then.   *)

\* the files the user picks in the file dialog
Files == {"sales.csv", "notes.csv"}

PathOf(f) == <<"home", "user", f>>

\* pd.read_csv(file_path)
FrameOf(f) ==
    IF f = "sales.csv"
    THEN MakeFrame(<<[dtype |-> "int64", cells |-> <<Num(1)>>]>>, 1)
    ELSE MakeFrame(<<[dtype |-> "object", cells |-> <<Txt(<<"a">>), Null>>]>>, 2)

\* the frames, analyses and reports of Files, each computed once
Frames == [f \in Files |-> FrameOf(f)]

Analysed == [f \in Files |-> PerformAnalysis(Frames[f])]

Paths == {<<>>} \cup {PathOf(f) : f \in Files}

Stories == [f \in Files |-> [p \in Paths |-> Story(Analysed[f], p)]]

\* analyzer.perform_analysis(progress_callback) on the frame d of a file
AnalysisOf(d) == Analysed[CHOOSE f \in Files : Frames[f] = d]

\* the story generate_pdf_report builds from the results res and the path
StoryOf(res, path) == Stories[CHOOSE f \in Files : Analysed[f] = res][path]

\* the callback posted with root.after(0, ...); id names the thread whose
\* variable e the callback reads, bound tells whether e is still bound
Event(kind, id) == [kind |-> kind, id |-> id, bound |-> TRUE]

FreeSlots(threads) == {s \in DOMAIN threads : threads[s].pc = "idle"}

FirstFree(threads) == CHOOSE s \in FreeSlots(threads) : \A t \in FreeSlots(threads) : s <= t

Pending(kinds) == {i \in 1..Len(events) : events[i].kind \in kinds}

EngineIdle == UNCHANGED <<progress_callback, pc, results, log>>

ReportKept == UNCHANGED <<story, disk, disk_before, report_error>>

\* upload_file: a file was chosen, a thread running process_upload is started
UploadFile(f) ==
    /\ Cardinality(DOMAIN uploads \ FreeSlots(uploads))
          + Cardinality(Pending({"upload_success"})) < MaxUploads
    /\ uploads' = [uploads EXCEPT ![FirstFree(uploads)] =
                      [pc |-> "read", file |-> f, frame |-> NoFrame]]
    /\ UNCHANGED <<df, uploaded_file_path, analysis_results, app, analyses, events, removed>>
    /\ EngineIdle /\ ReportKept

\* process_upload: self.df = pd.read_csv(file_path)
UploadRead(s) ==
    /\ uploads[s].pc = "read"
    /\ df' = Frames[uploads[s].file]
    /\ uploads' = [uploads EXCEPT ![s].pc = "path"]
    /\ UNCHANGED <<uploaded_file_path, analysis_results, app, analyses, events, removed>>
    /\ EngineIdle /\ ReportKept

\* process_upload: self.uploaded_file_path = file_path, then
\* self.root.after(0, self.upload_success)
UploadPost(s) ==
    /\ uploads[s].pc = "path"
    /\ uploaded_file_path' = PathOf(uploads[s].file)
    /\ events' = Append(events, Event("upload_success", 0))
    /\ uploads' = [uploads EXCEPT ![s] = NoThread]
    /\ UNCHANGED <<df, analysis_results, app, analyses, removed>>
    /\ EngineIdle /\ ReportKept

\* upload_success: os.path.basename(None) or None.shape raises before any
\* widget is touched; otherwise the Remove and Analyse buttons are enabled
UploadSuccess ==
    /\ events # <<>>
    /\ Head(events).kind = "upload_success"
    /\ events' = Tail(events)
    /\ app' = IF uploaded_file_path = <<>> \/ df = NoFrame
              THEN app
              ELSE [app EXCEPT !.remove_file_btn = TRUE, !.analyze_btn = "normal"]
    /\ UNCHANGED <<df, uploaded_file_path, analysis_results, uploads, analyses, removed>>
    /\ EngineIdle /\ ReportKept

\* the body of remove_file
RemoveFileBody ==
    /\ uploaded_file_path' = <<>>
    /\ df' = NoFrame
    /\ analysis_results' = EmptyDict
    /\ app' = [app EXCEPT !.report_generated = FALSE,
                          !.remove_file_btn = FALSE,
                          !.analyze_btn = "disabled",
                          !.download_btn = "disabled"]
    /\ removed' = TRUE
    /\ UNCHANGED <<uploads, analyses, events>>
    /\ EngineIdle /\ ReportKept

\* remove_file, the command of the Remove File button, shown after an upload
RemoveFile ==
    /\ app.remove_file_btn
    /\ RemoveFileBody

\* reset_app, the command of the always enabled reset button: remove_file()
ResetApp == RemoveFileBody

\* `if self.df is None or self.analysis_in_progress: return`, negated
MayStartAnalysisNoFlag == df # NoFrame

MayStartAnalysis == df # NoFrame /\ ~app.analysis_in_progress

\* analyze_data, the command of the Analyse button
AnalyzeData ==
    /\ app.analyze_btn = "normal"
    /\ FreeSlots(analyses) # {}
    /\ IF MayStartAnalysis
       THEN /\ app' = [app EXCEPT !.analysis_in_progress = TRUE, !.analyze_btn = "disabled"]
            /\ analyses' = [analyses EXCEPT ![FirstFree(analyses)] =
                               [pc |-> "start", file |-> "", frame |-> NoFrame]]
            /\ removed' = FALSE
       ELSE UNCHANGED <<app, analyses, removed>>
    /\ UNCHANGED <<df, uploaded_file_path, analysis_results, uploads, events>>
    /\ EngineIdle /\ ReportKept

\* process_analysis: analyzer = EDAAnalyzer(self.df)
AnalysisStart(s) ==
    /\ analyses[s].pc = "start"
    /\ analyses' = [analyses EXCEPT ![s].pc = "run", ![s].frame = df]
    /\ UNCHANGED <<df, uploaded_file_path, analysis_results, app, uploads, events, removed>>
    /\ EngineIdle /\ ReportKept

\* process_analysis: self.analysis_results = analyzer.perform_analysis(progress_callback),
\* then self.root.after(0, self.analysis_success)
AnalysisReturns(s) ==
    /\ analyses[s].pc = "run"
    /\ analyses[s].frame # NoFrame
    /\ analysis_results' = AnalysisOf(analyses[s].frame)
    /\ events' = Append(events, Event("analysis_success", 0))
    /\ analyses' = [analyses EXCEPT ![s] = NoThread]
    /\ UNCHANGED <<df, uploaded_file_path, app, uploads, removed>>
    /\ EngineIdle /\ ReportKept

\* process_analysis: perform_analysis raises (the frame is None: None.shape),
\* then self.root.after(0, lambda: self.analysis_error(str(e)))
AnalysisRaises(s) ==
    /\ analyses[s].pc = "run"
    /\ analyses[s].frame = NoFrame
    /\ events' = Append(events, Event("analysis_error", s))
    /\ analyses' = [analyses EXCEPT ![s].pc = "unbind"]
    /\ UNCHANGED <<df, uploaded_file_path, analysis_results, app, uploads, removed>>
    /\ EngineIdle /\ ReportKept

\* process_analysis: the except clause ends and unbinds e, the variable the
\* posted lambda reads
AnalysisUnbind(s) ==
    /\ analyses[s].pc = "unbind"
    /\ events' = [i \in 1..Len(events) |->
                     IF events[i].kind = "analysis_error" /\ events[i].id = s
                     THEN [events[i] EXCEPT !.bound = FALSE]
                     ELSE events[i]]
    /\ analyses' = [analyses EXCEPT ![s] = NoThread]
    /\ UNCHANGED <<df, uploaded_file_path, analysis_results, app, uploads, removed>>
    /\ EngineIdle /\ ReportKept

\* analysis_success
AnalysisSuccess ==
    /\ events # <<>>
    /\ Head(events).kind = "analysis_success"
    /\ events' = Tail(events)
    /\ app' = [app EXCEPT !.analysis_in_progress = FALSE,
                          !.analyze_btn = "normal",
                          !.download_btn = "normal"]
    /\ UNCHANGED <<df, uploaded_file_path, analysis_results, uploads, analyses, removed>>
    /\ EngineIdle /\ ReportKept

\* the lambda posted by process_analysis runs: analysis_error(str(e)) while e
\* is still bound, a NameError (and no analysis_error) once it is unbound
AnalysisError ==
    /\ events # <<>>
    /\ Head(events).kind = "analysis_error"
    /\ events' = Tail(events)
    /\ app' = IF Head(events).bound
              THEN [app EXCEPT !.analysis_in_progress = FALSE, !.analyze_btn = "normal"]
              ELSE app
    /\ UNCHANGED <<df, uploaded_file_path, analysis_results, uploads, analyses, removed>>
    /\ EngineIdle /\ ReportKept

\* download_report, the command of the Download button: nothing without
\* results; otherwise generate_pdf_report(save_path) builds the story from
\* self.analysis_results and self.uploaded_file_path.  What doc.build then
\* leaves on the disk is the subject of the DocBuild actions; no field of
\* the application depends on it.
DownloadReport ==
    /\ app.download_btn = "normal"
    /\ analysis_results # EmptyDict
    /\ story' = StoryOf(analysis_results, uploaded_file_path)
    /\ UNCHANGED <<df, uploaded_file_path, analysis_results, appvars>>
    /\ UNCHANGED <<disk, disk_before, report_error>>
    /\ EngineIdle

InitApp ==
    /\ df = NoFrame
    /\ uploaded_file_path = <<>>
    /\ progress_callback = "given"
    /\ pc = At("app", 0)
    /\ results = EmptyDict
    /\ analysis_results = EmptyDict
    /\ log = <<>>
    /\ ReportIdle
    /\ disk = [dir |-> TRUE, file |-> "absent"]
    /\ disk_before = disk
    /\ AppIdle

NextApp ==
    \/ \E f \in Files : UploadFile(f)
    \/ \E s \in 1..MaxUploads : UploadRead(s)
    \/ \E s \in 1..MaxUploads : UploadPost(s)
    \/ UploadSuccess
    \/ RemoveFile
    \/ ResetApp
    \/ AnalyzeData
    \/ \E s \in 1..MaxAnalyses : AnalysisStart(s)
    \/ \E s \in 1..MaxAnalyses : AnalysisReturns(s)
    \/ \E s \in 1..MaxAnalyses : AnalysisRaises(s)
    \/ \E s \in 1..MaxAnalyses : AnalysisUnbind(s)
    \/ AnalysisSuccess
    \/ AnalysisError
    \/ DownloadReport

SpecApp == InitApp /\ [][NextApp]_vars

----------------------------------------------------------------------------
(* Properties of perform_analysis *)

IsPrefix(a, b) == Len(a) <= Len(b) /\ a = SubSeq(b, 1, Len(a))

\* perform_analysis has returned
Returned == pc.at \in {"done", "build", "saved", "failed"}

\* the percentages the callback was called with, in call order
Calls == LET cs == SelectSeq(log, LAMBDA e : e.kind = "callback")
         IN  [j \in 1..Len(cs) |-> cs[j].percent]

\* the stages finished before the j-th entry of the log
StagesBefore(j) == {log[m].text : m \in {m \in 1..(j - 1) : log[m].kind = "stage"}}

\* C1: with a callback given, the callback is called with 10, 25, 50, 75, 90,
\* 100 in this order, six times in a run that returns; the calls of 10..90 come
\* right before the stage they announce (basic info, missing values, numeric,
\* categorical, duplicates: the earlier stages are finished, the announced one
\* is not) and the call of 100 comes after the duplicate-row stage.
C1_ProgressCheckpoints ==
    progress_callback = "given" =>
        /\ IsPrefix(Calls, <<10, 25, 50, 75, 90, 100>>)
        /\ Returned => Calls = <<10, 25, 50, 75, 90, 100>>
        /\ \A j \in 1..Len(log) :
              LET done == StagesBefore(j) IN
              log[j].kind = "callback" =>
                 CASE log[j].percent = 10  -> done = {}
                   [] log[j].percent = 25  -> done = {"basic_info"}
                   [] log[j].percent = 50  -> done = {"basic_info", "missing_values"}
                   [] log[j].percent = 75  -> done = {"basic_info", "missing_values", "numeric"}
                   [] log[j].percent = 90  -> done = {"basic_info", "missing_values", "numeric",
                                                      "categorical"}
                   [] log[j].percent = 100 -> done = {"basic_info", "missing_values", "numeric",
                                                      "categorical", "duplicates"}
                   [] OTHER -> FALSE

\* a run with a callback has returned after six calls
C1_Witness ==
    /\ progress_callback = "given"
    /\ pc.at = "done"
    /\ Len(Calls) = 6
    /\ "duplicate_rows" \in DOMAIN analysis_results

\* C2: a callback that raises is tolerated: the run still finishes all five
\* stages and returns what a run without callback returns.
C2_RaisingCallbackTolerated ==
    pc.at = "raised" =>
        /\ StagesBefore(Len(log) + 1) = Range(StageNames)
        /\ DOMAIN analysis_results = DOMAIN PerformAnalysis(df)
        /\ analysis_results = PerformAnalysis(df)

\* C3: a dataset without rows is analysed without an exception, with
\* missing_percentage 0 for every column and duplicate_rows 0.
C3_ZeroRows ==
    (df.nrows = 0 /\ pc.at = "done") =>
        /\ \A name \in Range(df.columns) :
              FIsZero(analysis_results["missing_percentage"][name])
        /\ analysis_results["duplicate_rows"] = 0

\* C4: a report that fails leaves the destination as it was: no new file, and
\* a file from before keeps its contents.
C4_AllOrNothing ==
    pc.at = "failed" =>
        /\ report_error # "none"
        /\ disk.file = disk_before.file

\* the names of the columns of df whose dtype is one of ts
ColumnsOfType(ts) == {df.columns[i] : i \in {i \in 1..NCols(df) : df.dtypes[i] \in ts}}

\* C5: numeric_summary and correlation_matrix are in the result both or
\* neither: neither when no column is numeric, both when one is, and then
\* their keys are exactly the numeric columns.
C5_NumericKeys ==
    pc.at = "done" =>
        LET res     == analysis_results
            numeric == ColumnsOfType({"int64", "float64"})
        IN  /\ ("numeric_summary" \in DOMAIN res) = (numeric # {})
            /\ ("correlation_matrix" \in DOMAIN res) = (numeric # {})
            /\ numeric # {} =>
                  /\ DOMAIN res["numeric_summary"] = numeric
                  /\ DOMAIN res["correlation_matrix"] = numeric
                  /\ \A x \in numeric : DOMAIN res["correlation_matrix"][x] = numeric

\* a frame with a numeric and a non-numeric column has been analysed
C5_Witness ==
    /\ pc.at = "done"
    /\ "numeric_summary" \in DOMAIN analysis_results
    /\ ColumnsOfType({"int64", "float64"}) # {}
    /\ ColumnsOfType({"object", "bool"}) # {}

\* the rows of d in the order p
PermuteRows(d, p) ==
    [d EXCEPT !.data = [c \in 1..NCols(d) |-> [r \in 1..d.nrows |-> d.data[c][p[r]]]]]

\* the columns of d in the order p
PermuteCols(d, p) ==
    [d EXCEPT !.columns = [c \in 1..NCols(d) |-> d.columns[p[c]]],
              !.dtypes  = [c \in 1..NCols(d) |-> d.dtypes[p[c]]],
              !.data    = [c \in 1..NCols(d) |-> d.data[p[c]]]]

\* up to this many rows every permutation is tried, above it the ones of Orders
MaxPermuted == 4

\* exchanges of two positions, rotations and the reversal of 1..n
Orders(n) ==
    {[i \in 1..n |-> IF i = a THEN b ELSE IF i = b THEN a ELSE i] : a, b \in 1..n}
    \cup {[i \in 1..n |-> ((i + k) % n) + 1] : k \in 1..n}
    \cup {[i \in 1..n |-> n + 1 - i]}

Reorderings(n) == IF n <= MaxPermuted THEN Perms(n) \cup Orders(n) ELSE Orders(n)

\* C6: duplicate_rows is the number of rows equal, value by value, to an
\* earlier row, and it is the same for the frame with its rows permuted and
\* for the frame with its columns permuted.
C6_DuplicateRows ==
    pc.at = "done" =>
        /\ analysis_results["duplicate_rows"] =
              Cardinality({r \in 1..df.nrows : \E q \in 1..(r - 1) : Row(df, q) = Row(df, r)})
        /\ \A p \in Reorderings(df.nrows) :
              DuplicateRowsStep(PermuteRows(df, p), EmptyDict)["duplicate_rows"]
                 = analysis_results["duplicate_rows"]
        /\ \A p \in Reorderings(NCols(df)) :
              DuplicateRowsStep(PermuteCols(df, p), EmptyDict)["duplicate_rows"]
                 = analysis_results["duplicate_rows"]

\* a frame with a repeated row, whose rows are not all equal, has been analysed
C6_Witness ==
    /\ pc.at = "done"
    /\ analysis_results["duplicate_rows"] >= 1
    /\ \E q, r \in 1..df.nrows : Row(df, q) # Row(df, r)

\* C7: categorical_summary is in the result exactly when a column is of
\* dtype object or category; it has one entry per such column; top_values
\* holds distinct values with the number of their occurrences, no value left
\* out occurs more often than one kept, and it has at most 10 and at most
\* unique_count entries.
C7_CategoricalSummary ==
    pc.at = "done" =>
        LET res == analysis_results
            cat == ColumnsOfType({"object", "category"})
        IN  /\ ("categorical_summary" \in DOMAIN res) = (cat # {})
            /\ cat # {} =>
                  /\ DOMAIN res["categorical_summary"] = cat
                  /\ \A name \in cat :
                        LET e    == res["categorical_summary"][name]
                            top  == e.top_values
                            col  == Column(df, name)
                            kept == {top[i].value : i \in 1..Len(top)}
                        IN  /\ Len(top) <= 10
                            /\ Len(top) <= e.unique_count
                            /\ Cardinality(kept) = Len(top)
                            /\ \A i \in 1..Len(top) :
                                  /\ ~IsNull(top[i].value)
                                  /\ top[i].count = CountOf(col, top[i].value)
                                  /\ top[i].count >= 1
                            /\ \A v \in Range(col) \ (kept \cup {Null}) :
                                  \A i \in 1..Len(top) : CountOf(col, v) <= top[i].count

\* a column with more than 10 distinct values, one of them repeated, has been
\* summarised
C7_Witness ==
    /\ pc.at = "done"
    /\ "categorical_summary" \in DOMAIN analysis_results
    /\ \E name \in DOMAIN analysis_results["categorical_summary"] :
          LET e == analysis_results["categorical_summary"][name]
          IN  /\ e.unique_count > 10
              /\ Len(e.top_values) = 10
              /\ e.top_values[1].count > 1

\* C8: columns is the list of the frame's column names in their order; dtypes,
\* missing_values and missing_percentage have one entry per column; the
\* entries of missing_values add up to the number of null cells of the frame.
C8_PerColumnEntries ==
    pc.at = "done" =>
        LET res   == analysis_results
            names == {df.columns[i] : i \in 1..NCols(df)}
            nulls == {cell \in (1..NCols(df)) \X (1..df.nrows) : df.data[cell[1]][cell[2]].k = "null"}
        IN  /\ res["columns"] = df.columns
            /\ DOMAIN res["dtypes"] = names
            /\ DOMAIN res["missing_values"] = names
            /\ DOMAIN res["missing_percentage"] = names
            /\ Cardinality(names) = Len(res["columns"])
            /\ \A i \in 1..NCols(df) : res["dtypes"][df.columns[i]] = df.dtypes[i]
            /\ SumSeq([i \in 1..NCols(df) |-> res["missing_values"][df.columns[i]]])
                  = Cardinality(nulls)

\* a frame with two columns and a null cell has been analysed
C8_Witness ==
    /\ pc.at = "done"
    /\ NCols(df) >= 2
    /\ \E name \in Range(df.columns) : analysis_results["missing_values"][name] >= 1
    /\ \E name \in Range(df.columns) : analysis_results["missing_values"][name] = 0

----------------------------------------------------------------------------
(* Properties of generate_pdf_report *)

\* generate_pdf_report has reached doc.build
StoryBuilt == pc.at \in {"build", "saved", "failed"}

\* the positions of the paragraphs whose text is exactly h
HeadingAt(h) ==
    {j \in 1..Len(story) : story[j].kind = "Paragraph" /\ story[j].text = <<h>>}

\* the positions of the blocks of one kind
BlocksOf(kind) == {j \in 1..Len(story) : story[j].kind = kind}

\* C9: the story holds, in this order, the title, the generation info, the
\* Dataset Overview table, the Column Information table with one row per
\* column in the frame's order, then a page break and the Numerical Columns
\* Summary table exactly when numeric_summary is in the results, then the
\* categorical section exactly when categorical_summary is in the results;
\* results without an optional key are rendered, without those blocks.
C9_BlockOrder ==
    StoryBuilt =>
        LET res  == analysis_results
            src  == IF uploaded_file_path # <<>> THEN 1 ELSE 0
            colt == 9 + src
            num  == IF "numeric_summary" \in DOMAIN res THEN 3 ELSE 0
        IN  /\ Len(story) >= colt
            /\ story[1].kind = "Paragraph"
            /\ story[1].text = <<"Exploratory Data Analysis Report">>
            /\ story[3].kind = "Paragraph" /\ story[3].text[1] = "Generated on: "
            /\ src = 1 => story[4].text = <<"Source file: ", "data.csv">>
            /\ HeadingAt("Dataset Overview") = {5 + src}
            /\ story[6 + src].kind = "Table"
            /\ story[6 + src].data[2][1] = <<"Number of Rows">>
            /\ HeadingAt("Column Information") = {8 + src}
            /\ story[colt].kind = "Table"
            /\ Len(story[colt].data) = NCols(df) + 1
            /\ \A i \in 1..NCols(df) : story[colt].data[i + 1][1] = <<df.columns[i]>>
            /\ BlocksOf("PageBreak") = (IF num = 3 THEN {colt + 1} ELSE {})
            /\ HeadingAt("Numerical Columns Summary") = (IF num = 3 THEN {colt + 2} ELSE {})
            /\ num = 3 =>
                  /\ story[colt + 3].kind = "Table"
                  /\ Len(story[colt + 3].data) = Cardinality(DOMAIN res["numeric_summary"]) + 1
            /\ HeadingAt("Categorical Columns Summary") =
                  (IF "categorical_summary" \in DOMAIN res THEN {colt + num + 2} ELSE {})
            /\ "categorical_summary" \notin DOMAIN res => Len(story) = colt + num
            /\ pc.at = "build" => report_error = "none"

\* a report with both optional sections has been built and saved
C9_Witness ==
    /\ pc.at = "saved"
    /\ "numeric_summary" \in DOMAIN analysis_results
    /\ "categorical_summary" \in DOMAIN analysis_results
    /\ Len(story) > 15

\* the number a sequence of digit characters reads as
RECURSIVE ParseInt(_)
ParseInt(ds) ==
    IF ds = <<>> THEN 0
    ELSE 10 * ParseInt(SubSeq(ds, 1, Len(ds) - 1))
         + (CHOOSE k \in 0..9 : DigitChars[k + 1] = ds[Len(ds)])

IsNumeral(ds) == ds # <<>> /\ \A i \in 1..Len(ds) : ds[i] \in Range(DigitChars)

\* C10: for every categorical column the top-values table is in the story
\* only when top_values is not empty; its rows are the first 5 stored top
\* values in their stored order, each value cut to its first 30 characters at
\* most and each count as stored.
C10_TopValuesTable ==
    (StoryBuilt /\ "categorical_summary" \in DOMAIN analysis_results) =>
        \A name \in DOMAIN analysis_results["categorical_summary"] :
            LET top == analysis_results["categorical_summary"][name].top_values
                at  == {j \in 1..Len(story) : story[j].text = <<"Column: ", name>>}
            IN  /\ Cardinality(at) = 1
                /\ \A j \in at :
                      IF top = <<>>
                      THEN \/ j + 2 > Len(story)
                           \/ /\ story[j + 2].kind = "Paragraph"
                              /\ story[j + 2].text[1] = "Column: "
                      ELSE /\ j + 3 <= Len(story)
                           /\ story[j + 2].text = <<"Top values:">>
                           /\ story[j + 3].kind = "Table"
                           /\ LET data == story[j + 3].data
                                  rows == Len(data) - 1
                              IN  /\ rows <= 5
                                  /\ rows = Min(5, Len(top))
                                  /\ \A i \in 1..rows :
                                        LET full    == Str(top[i].value)
                                            printed == data[i + 1][1]
                                        IN  /\ Len(printed) <= 30
                                            /\ IsPrefix(printed, full)
                                            /\ Len(printed) = Len(full) \/ Len(printed) = 30
                                            /\ IsNumeral(data[i + 1][2])
                                            /\ ParseInt(data[i + 1][2]) = top[i].count

\* a report has been built for a column with more than 5 stored top values,
\* the first of them longer than 30 characters
C10_Witness ==
    /\ pc.at = "saved"
    /\ "categorical_summary" \in DOMAIN analysis_results
    /\ \E name \in DOMAIN analysis_results["categorical_summary"] :
          LET top == analysis_results["categorical_summary"][name].top_values
          IN  /\ Len(top) > 5
              /\ Len(Str(top[1].value)) > 30

----------------------------------------------------------------------------
(* Properties of QuickEDAApp, under SpecApp *)

\* process_analysis threads that have not yet reported
Running == {s \in DOMAIN analyses : analyses[s].pc \in {"start", "run"}}

\* the reports of process_analysis threads the main loop has not yet handled
Reported == Pending({"analysis_success", "analysis_error"})

\* no thread is alive and the main loop has nothing left to handle
Quiet ==
    /\ FreeSlots(uploads) = DOMAIN uploads
    /\ FreeSlots(analyses) = DOMAIN analyses
    /\ events = <<>>

\* C11: whenever the Download button can produce a report (it is enabled and
\* analysis_results is not empty), every upload and analysis has been handled
\* and no file was removed since the last analysis was started, the results
\* are those of the dataset loaded in self.df, and uploaded_file_path, the
\* report's Source file, names the file they came from.
C11_ResultsOfLoadedDataset ==
    (Quiet /\ ~removed /\ app.download_btn = "normal" /\ analysis_results # EmptyDict)
        => \E f \in Files :
              /\ df = Frames[f]
              /\ uploaded_file_path = PathOf(f)
              /\ analysis_results = PerformAnalysis(df)

\* C12: from remove_file (or reset_app) until analyze_data next starts an
\* analysis, analysis_results is empty and the Download button is disabled.
C12_RemovalKeepsResultsEmpty ==
    removed => (analysis_results = EmptyDict /\ app.download_btn = "disabled")

\* C13: once no analysis thread is alive and no report of one is left to be
\* handled, every analysis that was started has finished, so
\* analysis_in_progress is False again.
C13_FinishedAnalysisResetsFlag ==
    (FreeSlots(analyses) = DOMAIN analyses /\ Reported = {})
        => ~app.analysis_in_progress

\* C14: at most one analysis is under way at any time, counting the threads
\* that have not yet reported and the reports not yet handled, and
\* analysis_in_progress is True as long as there is one; a thread that has
\* not reported was started with a dataset loaded, so self.df is loaded
\* unless remove_file has run since.
C14_OneAnalysisAtATime ==
    /\ Cardinality(Running) + Cardinality(Reported) <= 1
    /\ (Running # {} \/ Reported # {}) => app.analysis_in_progress
    /\ (Running # {} /\ ~removed) => df # NoFrame

\* an analysis thread is running while the Analyse button is enabled again,
\* by an upload that completed during the run, with a dataset loaded
C14_Witness ==
    /\ Running # {}
    /\ app.analyze_btn = "normal"
    /\ df # NoFrame

====
